---------------------------- MODULE Spec2Model ----------------------------
(***************************************************************************)
(* Printing-kiosk backend: the processJob pipeline (download, sharp layout *)
(* processing, lp dispatch, Firestore status update, cleanup) in the four  *)
(* variants found in the repository, and the layout geometry they compute. *)
(*                                                                         *)
(*   part_000   src/unnamed/part_000  (a5 / two-slot A6, padding, contain) *)
(*   part_001   src/unnamed/part_001  (two4x6 centred, fixed gap 50)       *)
(*   server_v3  src/server.js 248-521 (two4x6 cover crop, computed gap)    *)
(*   server_v1  src/server.js 1-246   (no layout logic, prints localFile)  *)
(***************************************************************************)
EXTENDS Integers, Sequences, FiniteSets

(***************************************************************************)
(* Bounds of the model.                                                    *)
(***************************************************************************)
\* number of job documents of the lifecycle specification
MaxJobs == 2
\* Date.now() takes the values 0..MaxClock
MaxClock == 1
\* small source widths and heights 1..MaxDim of the layout specification
MaxDim == 8
\* canvas and slot heights 1..MaxStack of the stack-gap specification
MaxStack == 14

\* pixels by which a resized photo may differ from the requested size
MaxDrift == 1

(***************************************************************************)
(* Arithmetic helpers.                                                     *)
(***************************************************************************)
Abs(x) == IF x < 0 THEN -x ELSE x

Max(a, b) == IF a >= b THEN a ELSE b

\* Math.round(n / d) for d > 0: nearest integer, halves towards +infinity
Round(n, d) == (2 * n + d) \div (2 * d)

(***************************************************************************)
(* Program constants.                                                      *)
(***************************************************************************)
canvasWidth == 1748

canvasHeight == 2480

photoWidth == 1748

\* part_000: real A6 landscape height
photoHeightA6 == 1240

\* server_v3: Math.round(photoWidth * 2 / 3)
photoHeight4x6 == Round(photoWidth * 2, 3)

\* part_001: fixed vertical gap
gapFixed == 50

\* part_001: Math.round((canvasHeight - gap * 3) / 2 + 50)
availableHeightPerPhoto == Round((canvasHeight - gapFixed * 3) + 2 * 50, 2)

Variants == {"part_000", "part_001", "server_v3", "server_v1"}

LayoutVariants == {"part_000", "part_001", "server_v3"}

\* values of job.layout || job.options?.layout; "none" is a job without one
Layouts == {"a5", "fullA5", "two4x6", "twoA6", "poster", "none"}

\* const layout = job.layout || job.options?.layout || <default>
LayoutOf(v, l) ==
  IF l # "none" THEN l ELSE IF v = "part_000" THEN "a5" ELSE "fullA5"

(***************************************************************************)
(* sharp operations, on image dimensions <<width, height>>.                *)
(***************************************************************************)
\* mutant: the rotate call left out
Rotate90None(d) == d

\* .rotate(90): width and height are swapped
Rotate90(d) == <<d[2], d[1]>>

\* .extend({top, bottom, left, right})
Extend(d, top, bottom, left, right) == <<d[1] + left + right, d[2] + top + bottom>>

\* .resize(w, h, {fit: "inside"}): scaled to fit, aspect ratio kept
ResizeInside(d, w, h) ==
  IF w * d[2] <= h * d[1]
    THEN <<w, Max(1, Round(d[2] * w, d[1]))>>
    ELSE <<Max(1, Round(d[1] * h, d[2])), h>>

\* mutant: fit "inside" where the code asks for "contain"
ResizeContainAsInside(d, w, h) == ResizeInside(d, w, h)

\* .resize(w, h, {fit: "contain"}): letterboxed to exactly w x h
ResizeContain(d, w, h) == <<w, h>>

\* .resize(w, h, {fit: "cover"}): scaled and cropped to exactly w x h
ResizeCover(d, w, h) == <<w, h>>

\* .resize(w, h, {fit: "fill"}): stretched to exactly w x h
ResizeFill(d, w, h) == <<w, h>>

\* .composite(): sharp rejects an overlay larger than the base image
CompositeFits(photo, canvas) == photo[1] <= canvas[1] /\ photo[2] <= canvas[2]

(***************************************************************************)
(* part_000: orientation and padding.                                      *)
(***************************************************************************)
\* targetRatio as <<numerator, denominator>>
TargetRatio(layout) == IF layout \in {"a5", "fullA5"} THEN <<2, 3>> ELSE <<3, 2>>

\* mutant: >= and <= where the code compares with > and <
ShouldRotateInclusive(layout, d) ==
  IF layout \in {"a5", "fullA5"} THEN d[1] >= d[2]
  ELSE IF layout \in {"two4x6", "twoA6"} THEN d[1] <= d[2]
  ELSE FALSE

\* ratio > 1.0 for the single photo, ratio < 1.0 for the two-slot layout
ShouldRotate(layout, d) ==
  IF layout \in {"a5", "fullA5"} THEN d[1] > d[2]
  ELSE IF layout \in {"two4x6", "twoA6"} THEN d[1] < d[2]
  ELSE FALSE

\* Math.abs(newRatio - targetRatio) > 0.01
NeedsPad(d, t) == 100 * Abs(d[1] * t[2] - d[2] * t[1]) > d[2] * t[2]

\* newWidth, newHeight
PadTarget(d, t) ==
  IF d[1] * t[2] > d[2] * t[1]
    THEN <<d[1], Round(d[1] * t[2], t[1])>>
    ELSE <<Round(d[2] * t[1], t[2]), d[2]>>

\* mutant: the whole difference on each side instead of half of it
PadAmountFull(d, t) ==
  LET n == PadTarget(d, t)
  IN  <<Max(0, n[1] - d[1]), Max(0, n[2] - d[2])>>

\* padX, padY
PadAmount(d, t) ==
  LET n == PadTarget(d, t)
  IN  <<Max(0, Round(n[1] - d[1], 2)), Max(0, Round(n[2] - d[2], 2))>>

\* the extend call: top = bottom = padY, left = right = padX
PadSides(d, t) ==
  LET p == PadAmount(d, t)
  IN  [top |-> p[2], bottom |-> p[2], left |-> p[1], right |-> p[1]]

(***************************************************************************)
(* server_v3: vertical spacing.                                            *)
(***************************************************************************)
\* mutant: Math.ceil where the code uses Math.round
StackGapCeil(cH, sH) == Max(1, (cH - sH * 2 + 2) \div 3)

\* gap = Math.max(1, Math.round((canvasHeight - photoHeight * 2) / 3))
StackGap(cH, sH) == Max(1, Round(cH - sH * 2, 3))

\* mutant: secondPhotoTop = photoHeight, the formula of part_000
StackPlanSecondAtHeight(cH, sH) ==
  LET gap == StackGap(cH, sH)
  IN  [gap |-> gap, first |-> gap, second |-> sH, overflow |-> sH + sH > cH]

\* firstPhotoTop, secondPhotoTop and the overflow check of server_v3
StackPlan(cH, sH) ==
  LET totalPhotosHeight == sH * 2
      availableSpace == cH - totalPhotosHeight
      gap == StackGap(cH, sH)
      secondPhotoTop == gap * 2 + sH
  IN  [gap |-> gap, first |-> gap, second |-> secondPhotoTop,
       overflow |-> secondPhotoTop + sH > cH]

(***************************************************************************)
(* Layout processing of one source image: what the sharp pipeline of each  *)
(* variant computes when no sharp call fails on its own.                   *)
(***************************************************************************)
NoSides == [top |-> 0, bottom |-> 0, left |-> 0, right |-> 0]

Rect(left, top, d) == [left |-> left, top |-> top, width |-> d[1], height |-> d[2]]

Canvas == <<canvasWidth, canvasHeight>>

\* rotation, padding and extend shared by both padded branches of part_000
PadStage(layout, src) ==
  LET rotated == ShouldRotate(layout, src)
      meta == IF rotated THEN Rotate90(src) ELSE src
      t == TargetRatio(layout)
      needs == NeedsPad(meta, t)
      sides == IF needs THEN PadSides(meta, t) ELSE NoSides
  IN  [rotated |-> rotated, meta |-> meta, target |-> t, needsPad |-> needs,
       newDims |-> IF needs THEN PadTarget(meta, t) ELSE meta,
       sides |-> sides,
       padded |-> Extend(meta, sides.top, sides.bottom, sides.left, sides.right)]

\* result of a branch that resizes the source straight to the canvas
FullResult(src, out) ==
  [err |-> "none", branch |-> "full", rotated |-> FALSE, meta |-> src,
   target |-> <<0, 0>>, needsPad |-> FALSE, newDims |-> src, sides |-> NoSides,
   padded |-> src, photo |-> <<0, 0>>, gap |-> 0, slots |-> <<>>, out |-> out]

\* src/unnamed/part_000
LayoutPart000(layout, src) ==
  IF layout \in {"a5", "fullA5"} THEN
    LET p == PadStage(layout, src)
    IN  [err |-> "none", branch |-> "single", rotated |-> p.rotated,
         meta |-> p.meta, target |-> p.target, needsPad |-> p.needsPad,
         newDims |-> p.newDims, sides |-> p.sides, padded |-> p.padded,
         photo |-> <<0, 0>>, gap |-> 0, slots |-> <<>>,
         out |-> ResizeContain(p.padded, canvasWidth, canvasHeight)]
  ELSE IF layout \in {"two4x6", "twoA6"} THEN
    LET p == PadStage(layout, src)
        resizedPhoto == ResizeContain(p.padded, photoWidth, photoHeightA6)
        firstPhotoTop == 0
        secondPhotoTop == photoHeightA6
        fits == CompositeFits(resizedPhoto, Canvas)
    IN  [err |-> IF fits THEN "none" ELSE "composite", branch |-> "two",
         rotated |-> p.rotated, meta |-> p.meta, target |-> p.target,
         needsPad |-> p.needsPad, newDims |-> p.newDims, sides |-> p.sides,
         padded |-> p.padded, photo |-> resizedPhoto, gap |-> 0,
         slots |-> <<Rect(0, firstPhotoTop, resizedPhoto),
                     Rect(0, secondPhotoTop, resizedPhoto)>>,
         out |-> Canvas]
  ELSE FullResult(src, ResizeContain(src, canvasWidth, canvasHeight))

\* mutant: the clamp only scales down a photo that came out too large
SafetyClampIfLarger(d, w, h) == IF d[1] > w \/ d[2] > h THEN ResizeFill(d, w, h) ELSE d

\* the safety clamp of server_v3: a second, exact resize on any mismatch
SafetyClamp(d, w, h) == IF d[1] # w \/ d[2] # h THEN ResizeFill(d, w, h) ELSE d

\* src/server.js, third variant
LayoutServerV3(layout, src) ==
  IF layout = "two4x6" THEN
    LET rotatedImage == Rotate90(src)
        cover == ResizeCover(rotatedImage, photoWidth, photoHeight4x6)
        resizedPhoto == SafetyClamp(cover, photoWidth, photoHeight4x6)
        tooBig == resizedPhoto[1] > canvasWidth \/ resizedPhoto[2] > canvasHeight
        plan == StackPlan(canvasHeight, photoHeight4x6)
        err == IF tooBig \/ plan.overflow THEN "overflow"
               ELSE IF ~CompositeFits(resizedPhoto, Canvas) THEN "composite"
               ELSE "none"
    IN  [err |-> err, branch |-> "two", rotated |-> TRUE, meta |-> rotatedImage,
         target |-> <<3, 2>>, needsPad |-> FALSE, newDims |-> rotatedImage,
         sides |-> NoSides, padded |-> rotatedImage, photo |-> resizedPhoto,
         gap |-> plan.gap,
         slots |-> <<Rect(0, plan.first, resizedPhoto),
                     Rect(0, plan.second, resizedPhoto)>>,
         out |-> Canvas]
  ELSE FullResult(src, ResizeCover(src, canvasWidth, canvasHeight))

\* src/unnamed/part_001
LayoutPart001(layout, src) ==
  IF layout = "two4x6" THEN
    LET rotatedDims == Rotate90(src)
        rotatedWidth == rotatedDims[1]
        rotatedHeight == rotatedDims[2]
        availableWidth == canvasWidth
        \* scale = min(availableWidth / rotatedWidth, available height / rotatedHeight)
        byWidth == availableWidth * rotatedHeight <= availableHeightPerPhoto * rotatedWidth
        finalWidth == IF byWidth THEN Round(rotatedWidth * availableWidth, rotatedWidth)
                      ELSE Round(rotatedWidth * availableHeightPerPhoto, rotatedHeight)
        finalHeight == IF byWidth THEN Round(rotatedHeight * availableWidth, rotatedWidth)
                       ELSE Round(rotatedHeight * availableHeightPerPhoto, rotatedHeight)
        resizeOk == finalWidth >= 1 /\ finalHeight >= 1
        resizedPhoto == IF resizeOk THEN ResizeInside(rotatedDims, finalWidth, finalHeight)
                        ELSE <<0, 0>>
        leftOffset == Round(canvasWidth - resizedPhoto[1], 2)
        topOffsetInSlot == Round(availableHeightPerPhoto - resizedPhoto[2], 2)
        firstPhotoTop == gapFixed + topOffsetInSlot
        secondPhotoTop == gapFixed * 2 + availableHeightPerPhoto + topOffsetInSlot
        err == IF ~resizeOk THEN "resize"
               ELSE IF ~CompositeFits(resizedPhoto, Canvas) THEN "composite"
               ELSE "none"
    IN  [err |-> err, branch |-> "two", rotated |-> TRUE, meta |-> rotatedDims,
         target |-> <<0, 0>>, needsPad |-> FALSE, newDims |-> rotatedDims,
         sides |-> NoSides, padded |-> rotatedDims, photo |-> resizedPhoto,
         gap |-> gapFixed,
         slots |-> <<Rect(leftOffset, firstPhotoTop, resizedPhoto),
                     Rect(leftOffset, secondPhotoTop, resizedPhoto)>>,
         out |-> Canvas]
  ELSE FullResult(src, ResizeCover(src, canvasWidth, canvasHeight))

\* the try block of processJob that holds the layout logic
Layout(v, layout, src) ==
  IF v = "part_000" THEN LayoutPart000(layout, src)
  ELSE IF v = "part_001" THEN LayoutPart001(layout, src)
  ELSE LayoutServerV3(layout, src)

(***************************************************************************)
(* State.                                                                  *)
(***************************************************************************)
VARIABLES
  variant,       \* which variant of the backend is running
  flaky,         \* whether external calls may fail on their own
  now,           \* the value Date.now() returns
  docs,          \* job documents that clients will submit
  job,           \* doc.data(): fileName and layout of every job document
  image,         \* width and height of the picture uploaded under a file name
  status,        \* printJobs/<jobId>.status in Firestore
  pc,            \* where each processJob invocation stands
  localFile,     \* const localFile of each invocation
  convertedFile, \* const convertedFile
  processedFile, \* const processedFile
  sharpResult,   \* how the layout try block ended
  img,           \* what the layout logic computed
  tmp,           \* files under /tmp: path |-> content
  storage,       \* objects printJobs/<fileName> present in the bucket
  printed,       \* the lp command each invocation dispatched
  created,       \* /tmp paths each invocation wrote
  unlinked,      \* /tmp paths each invocation passed to fs.unlink
  pendingUnlink, \* fs.unlink calls whose callback has not run yet
  fault,         \* an external call of the invocation failed on its own
  thrown,        \* the value the outer catch receives as err
  jobError,      \* printJobs/<jobId>.error in Firestore
  stack,         \* inputs and result of the stack-gap computation
  served,        \* requests of each client answered in the current window
  elapsed,       \* minutes since the current window began
  view           \* job documents in the listener's last query snapshot

vars == <<variant, flaky, now, docs, job, image, status, pc, localFile, convertedFile,
          processedFile, sharpResult, img, tmp, storage, printed, created,
          unlinked, pendingUnlink, fault, thrown, jobError, stack, served,
          elapsed, view>>

jobVars == <<variant, flaky, now, docs, job, image, status, pc, localFile,
             convertedFile, processedFile, sharpResult, img, tmp, storage,
             printed, created, unlinked, pendingUnlink, fault, thrown,
             jobError, view>>

httpVars == <<served, elapsed>>

Jobs == 1..MaxJobs

\* client IP addresses
Clients == {"10.0.0.1", "10.0.0.2"}

FileNames == {"a.jpg", "b.jpg"}

\* path.join("/tmp", `${prefix}${t}-${fileName}`)
TmpPath(prefix, t, fileName) == <<prefix, t, fileName>>

\* the empty string, the only falsy path
EmptyPath == <<"", -1, "">>

\* const tempFile = "/tmp/temp-composite.jpg"
tempFile == <<"temp-composite.jpg", 0, "">>

\* a || b on paths
OrElse(a, b) == IF a # EmptyPath THEN a ELSE b

NoImg == [err |-> "unset"]

NoContent(kind) == [src |-> "", kind |-> kind, layout |-> "none", dims |-> <<0, 0>>]

\* fitOption and copiesOption of the lp command line
LpArgs(jb) ==
  [fit |-> IF jb.fitToPage THEN "-o fit-to-page" ELSE "",
   copies |-> IF jb.copies # 0 THEN <<"-n", jb.copies>> ELSE <<>>]

NoArgs == [fit |-> "", copies |-> <<>>]

NoPrint == [file |-> EmptyPath, content |-> NoContent("none"), ok |-> FALSE,
            args |-> NoArgs, count |-> 0]

\* a || b on layout identifiers; "none" stands for an absent field
OrLayout(a, b) == IF a # "none" THEN a ELSE b

\* mutant: fit-to-page jobs are sent to the full-page branch
JobLayoutByFit(j) ==
  IF job[j].fitToPage THEN "poster"
  ELSE LayoutOf(variant, OrLayout(job[j].layout, job[j].optLayout))

\* const layout = job.layout || job.options?.layout || <default>
JobLayout(j) == LayoutOf(variant, OrLayout(job[j].layout, job[j].optLayout))

\* a job document with no options
PlainJob(f, l) ==
  [fileName |-> f, layout |-> l, optLayout |-> "none", fitToPage |-> FALSE,
   copies |-> 0]

\* values the outer catch can receive: message is err.message ("" when absent
\* or empty), text is err.toString()
NoError == [message |-> "", text |-> ""]

DownloadError == [message |-> "No such object", text |-> "Error: No such object"]

\* reject(stderr || err): the stderr string when lp wrote one
LpStderr == [message |-> "", text |-> "lp: Error"]

LpError == [message |-> "Command failed", text |-> "Error: Command failed"]

FirestoreError == [message |-> "UNAVAILABLE", text |-> "Error: UNAVAILABLE"]

DeleteError == [message |-> "Not Found", text |-> "Error: Not Found"]

\* err?.message || err?.toString() || "Unknown error"
ErrorMsg(err) ==
  IF err.message # "" THEN err.message
  ELSE IF err.text # "" THEN err.text
  ELSE "Unknown error"

RawContent(f) == [src |-> f, kind |-> "raw", layout |-> "none", dims |-> image[f]]

\* fs.writeFile semantics: create or overwrite
WriteFile(fs, p, c) == [q \in DOMAIN fs \cup {p} |-> IF q = p THEN c ELSE fs[q]]

RemoveFile(fs, p) == [q \in DOMAIN fs \ {p} |-> fs[q]]

\* the file named in the lp command line
PrintTarget(j) ==
  IF variant = "server_v1" THEN localFile[j]
  ELSE OrElse(processedFile[j], localFile[j])

InitJob ==
  /\ now = 0
  /\ status = [j \in Jobs |-> "none"]
  /\ pc = [j \in Jobs |-> "idle"]
  /\ localFile = [j \in Jobs |-> EmptyPath]
  /\ convertedFile = [j \in Jobs |-> EmptyPath]
  /\ processedFile = [j \in Jobs |-> EmptyPath]
  /\ sharpResult = [j \in Jobs |-> "none"]
  /\ img = [j \in Jobs |-> NoImg]
  /\ tmp = <<>>
  /\ storage = {}
  /\ printed = [j \in Jobs |-> NoPrint]
  /\ created = [j \in Jobs |-> {}]
  /\ unlinked = [j \in Jobs |-> {}]
  /\ pendingUnlink = {}
  /\ fault = [j \in Jobs |-> FALSE]
  /\ thrown = [j \in Jobs |-> NoError]
  /\ jobError = [j \in Jobs |-> ""]
  /\ served = [c \in Clients |-> 0]
  /\ elapsed = 0
  /\ view = {}

NoStack == [canvasHeight |-> canvasHeight, slotHeight |-> photoHeight4x6,
            planned |-> FALSE, gap |-> 0, first |-> 0, second |-> 0,
            overflow |-> FALSE]

\* widths and heights of the source pictures around the layouts' thresholds
LayoutDims == {340, 341, 509, 2400, 3000, 3600, 4000}

\* sizes of the source pictures: every small one, and every one of LayoutDims
SourceSizes ==
  ((1..MaxDim) \X (1..MaxDim)) \cup (LayoutDims \X LayoutDims)

\* one job of any layout on a picture of any size; every external call may fail
Init ==
  /\ variant \in Variants
  /\ flaky = TRUE
  /\ docs = {1}
  /\ \E d \in SourceSizes :
       image = [f \in FileNames |-> IF f = "a.jpg" THEN d ELSE <<1, 1>>]
  /\ \E l \in Layouts : job = [j \in Jobs |-> PlainJob("a.jpg", l)]
  /\ InitJob
  /\ stack = NoStack

\* MaxJobs jobs in flight together; external calls fail only for a missing file
InitConcurrent ==
  /\ variant \in Variants
  /\ flaky = FALSE
  /\ docs = Jobs
  /\ image = [f \in FileNames |-> IF f = "a.jpg" THEN <<3, 2>> ELSE <<2, 3>>]
  /\ \E f \in [Jobs -> FileNames], l \in [Jobs -> Layouts] :
       job = [j \in Jobs |-> PlainJob(f[j], l[j])]
  /\ InitJob
  /\ stack = NoStack

(***************************************************************************)
(* processJob, one action per stretch of code between two awaits.          *)
(***************************************************************************)
\* a client uploads the picture and adds the pending document; the snapshot
\* listener calls processJob, which runs up to the download
JobAdded(j) ==
  /\ j \in docs
  /\ pc[j] = "idle"
  /\ storage' = storage \cup {job[j].fileName}
  /\ status' = [status EXCEPT ![j] = "pending"]
  /\ localFile' = [localFile EXCEPT ![j] = TmpPath("", now, job[j].fileName)]
  /\ pc' = [pc EXCEPT ![j] = "download"]
  /\ view' = view \cup {j}
  /\ UNCHANGED <<variant, flaky, now, docs, job, image, convertedFile, processedFile,
                 sharpResult, img, tmp, printed, created, unlinked,
                 pendingUnlink, fault, thrown, jobError, stack, served,
                 elapsed>>

\* await bucket.file(remoteFilePath).download({destination: localFile})
Download(j) ==
  /\ pc[j] = "download"
  /\ \/ /\ job[j].fileName \in storage
        /\ tmp' = WriteFile(tmp, localFile[j], RawContent(job[j].fileName))
        /\ created' = [created EXCEPT ![j] = @ \cup {localFile[j]}]
        /\ IF variant = "server_v1"
             THEN /\ pc' = [pc EXCEPT ![j] = "print"]
                  /\ UNCHANGED <<convertedFile, processedFile>>
             ELSE /\ pc' = [pc EXCEPT ![j] = "sharp"]
                  /\ convertedFile' = [convertedFile EXCEPT
                       ![j] = TmpPath("converted-", now, job[j].fileName)]
                  /\ processedFile' = [processedFile EXCEPT
                       ![j] = TmpPath("processed-", now, job[j].fileName)]
        /\ UNCHANGED <<fault, thrown>>
     \/ /\ flaky \/ job[j].fileName \notin storage
        /\ pc' = [pc EXCEPT ![j] = "catch"]
        /\ fault' = [fault EXCEPT ![j] = @ \/ job[j].fileName \in storage]
        /\ thrown' = [thrown EXCEPT ![j] = DownloadError]
        /\ UNCHANGED <<tmp, created, convertedFile, processedFile>>
  /\ UNCHANGED <<variant, flaky, now, docs, job, image, status, localFile, sharpResult,
                 img, storage, printed, unlinked, pendingUnlink, jobError, stack,
                 served, elapsed, view>>

\* the finally block of the two-slot branch of part_000
FinallyTempFile(j, fs) ==
  IF /\ variant = "part_000"
     /\ JobLayout(j) \in {"two4x6", "twoA6"}
     /\ tempFile \in DOMAIN fs
    THEN RemoveFile(fs, tempFile)
    ELSE fs

\* the inner try block: sharp layout processing, ended by its catch
Sharp(j) ==
  /\ pc[j] = "sharp"
  /\ pc' = [pc EXCEPT ![j] = "print"]
  /\ \/ \* sharp(localFile) cannot read the source
        /\ localFile[j] \notin DOMAIN tmp
        /\ sharpResult' = [sharpResult EXCEPT ![j] = "loadErr"]
        /\ tmp' = FinallyTempFile(j, tmp)
        /\ UNCHANGED <<img, created, fault>>
     \/ \* a decode, rotate, extend, resize or composite call throws
        /\ flaky
        /\ localFile[j] \in DOMAIN tmp
        /\ sharpResult' = [sharpResult EXCEPT ![j] = "processErr"]
        /\ fault' = [fault EXCEPT ![j] = TRUE]
        /\ tmp' = FinallyTempFile(j, tmp)
        /\ UNCHANGED <<img, created>>
     \/ \* the layout is computed; toFile writes the artifact or throws
        /\ localFile[j] \in DOMAIN tmp
        /\ LET layout == JobLayout(j)
               r == Layout(variant, layout, tmp[localFile[j]].dims)
               artifact == [src |-> tmp[localFile[j]].src, kind |-> "processed",
                            layout |-> layout, dims |-> r.out]
           IN  /\ img' = [img EXCEPT ![j] = r]
               /\ IF r.err # "none"
                    THEN /\ sharpResult' = [sharpResult EXCEPT ![j] = r.err]
                         /\ tmp' = FinallyTempFile(j, tmp)
                         /\ UNCHANGED <<created, fault>>
                    ELSE \/ /\ sharpResult' = [sharpResult EXCEPT ![j] = "ok"]
                            /\ tmp' = FinallyTempFile(j,
                                        WriteFile(tmp, processedFile[j], artifact))
                            /\ created' = [created EXCEPT
                                             ![j] = @ \cup {processedFile[j]}]
                            /\ UNCHANGED fault
                         \/ /\ flaky
                            /\ sharpResult' = [sharpResult EXCEPT ![j] = "encodeErr"]
                            /\ fault' = [fault EXCEPT ![j] = TRUE]
                            /\ \/ /\ tmp' = FinallyTempFile(j, tmp)
                                  /\ UNCHANGED created
                               \/ /\ tmp' = FinallyTempFile(j,
                                      WriteFile(tmp, processedFile[j],
                                        [artifact EXCEPT !.kind = "partial"]))
                                  /\ created' = [created EXCEPT
                                       ![j] = @ \cup {processedFile[j]}]
  /\ UNCHANGED <<variant, flaky, now, docs, job, image, status, localFile,
                 convertedFile, processedFile, storage, printed, unlinked,
                 pendingUnlink, thrown, jobError, stack, served, elapsed, view>>

\* exec(printCommand): lp fails on a missing file, or on its own
ExecLp(j) ==
  /\ pc[j] = "print"
  /\ LET target == PrintTarget(j)
     IN  \/ /\ target \notin DOMAIN tmp
            /\ printed' = [printed EXCEPT ![j] =
                 [file |-> target, content |-> NoContent("missing"), ok |-> FALSE,
                  args |-> LpArgs(job[j]), count |-> printed[j].count + 1]]
            /\ pc' = [pc EXCEPT ![j] = "catch"]
            /\ thrown' = [thrown EXCEPT ![j] = LpStderr]
            /\ UNCHANGED fault
         \/ /\ target \in DOMAIN tmp
            /\ printed' = [printed EXCEPT ![j] =
                 [file |-> target, content |-> tmp[target], ok |-> TRUE,
                  args |-> LpArgs(job[j]), count |-> printed[j].count + 1]]
            /\ pc' = [pc EXCEPT ![j] = "update"]
            /\ UNCHANGED <<fault, thrown>>
         \/ /\ target \in DOMAIN tmp
            /\ flaky
            /\ printed' = [printed EXCEPT ![j] =
                 [file |-> target, content |-> tmp[target], ok |-> FALSE,
                  args |-> LpArgs(job[j]), count |-> printed[j].count + 1]]
            /\ pc' = [pc EXCEPT ![j] = "catch"]
            /\ fault' = [fault EXCEPT ![j] = TRUE]
            /\ \E e \in {LpStderr, LpError} : thrown' = [thrown EXCEPT ![j] = e]
  /\ UNCHANGED <<variant, flaky, now, docs, job, image, status, localFile,
                 convertedFile, processedFile, sharpResult, img, tmp, storage,
                 created, unlinked, pendingUnlink, jobError, stack, served,
                 elapsed, view>>

\* the paths step 4 passes to fs.unlink
UnlinkSet(j) ==
  IF variant = "server_v1" THEN {localFile[j]}
  ELSE {p \in {localFile[j], convertedFile[j]} : p # EmptyPath /\ p \in DOMAIN tmp}

\* status "completed", then the temp-file deletion is issued
UpdateCompleted(j) ==
  /\ pc[j] = "update"
  /\ \/ /\ status' = [status EXCEPT ![j] = "completed"]
        /\ unlinked' = [unlinked EXCEPT ![j] = @ \cup UnlinkSet(j)]
        /\ pendingUnlink' = pendingUnlink \cup UnlinkSet(j)
        /\ pc' = [pc EXCEPT ![j] = "delete"]
        /\ UNCHANGED <<fault, thrown>>
     \/ /\ flaky
        /\ fault' = [fault EXCEPT ![j] = TRUE]
        /\ thrown' = [thrown EXCEPT ![j] = FirestoreError]
        /\ pc' = [pc EXCEPT ![j] = "catch"]
        /\ UNCHANGED <<status, unlinked, pendingUnlink>>
  /\ UNCHANGED <<variant, flaky, now, docs, job, image, localFile, convertedFile,
                 processedFile, sharpResult, img, tmp, storage, printed,
                 created, jobError, stack, served, elapsed, view>>

\* the callback of fs.unlink
UnlinkDone(p) ==
  /\ p \in pendingUnlink
  /\ pendingUnlink' = pendingUnlink \ {p}
  /\ \/ /\ p \in DOMAIN tmp
        /\ tmp' = RemoveFile(tmp, p)
     \/ /\ flaky \/ p \notin DOMAIN tmp
        /\ UNCHANGED tmp
  /\ UNCHANGED <<variant, flaky, now, docs, job, image, status, pc, localFile,
                 convertedFile, processedFile, sharpResult, img, storage,
                 printed, created, unlinked, fault, thrown, jobError, stack,
                 served, elapsed, view>>

\* mutant: the storage delete runs as cleanup on the failure path as well
DeleteRemoteInFinally(j) ==
  /\ pc[j] \in {"delete", "catch"}
  /\ \/ /\ job[j].fileName \in storage
        /\ storage' = storage \ {job[j].fileName}
        /\ pc' = [pc EXCEPT ![j] = IF pc[j] = "delete" THEN "done" ELSE "catch"]
        /\ UNCHANGED <<fault, thrown>>
     \/ /\ pc[j] = "delete"
        /\ flaky \/ job[j].fileName \notin storage
        /\ pc' = [pc EXCEPT ![j] = "catch"]
        /\ fault' = [fault EXCEPT ![j] = @ \/ job[j].fileName \in storage]
        /\ thrown' = [thrown EXCEPT ![j] = DeleteError]
        /\ UNCHANGED storage
  /\ UNCHANGED <<variant, flaky, now, docs, job, image, status, localFile,
                 convertedFile, processedFile, sharpResult, img, tmp, printed,
                 created, unlinked, pendingUnlink, jobError, stack, served,
                 elapsed, view>>

\* await bucket.file(remoteFilePath).delete()
DeleteRemote(j) ==
  /\ pc[j] = "delete"
  /\ \/ /\ job[j].fileName \in storage
        /\ storage' = storage \ {job[j].fileName}
        /\ pc' = [pc EXCEPT ![j] = "done"]
        /\ UNCHANGED <<fault, thrown>>
     \/ /\ flaky \/ job[j].fileName \notin storage
        /\ pc' = [pc EXCEPT ![j] = "catch"]
        /\ fault' = [fault EXCEPT ![j] = @ \/ job[j].fileName \in storage]
        /\ thrown' = [thrown EXCEPT ![j] = DeleteError]
        /\ UNCHANGED storage
  /\ UNCHANGED <<variant, flaky, now, docs, job, image, status, localFile,
                 convertedFile, processedFile, sharpResult, img, tmp, printed,
                 created, unlinked, pendingUnlink, jobError, stack, served,
                 elapsed, view>>

\* the outer catch: status "failed"; a failing update rejects the promise
CatchFailed(j) ==
  /\ pc[j] = "catch"
  /\ \/ /\ status' = [status EXCEPT ![j] = "failed"]
        /\ jobError' = [jobError EXCEPT ![j] = ErrorMsg(thrown[j])]
        /\ pc' = [pc EXCEPT ![j] = "done"]
     \/ /\ flaky
        /\ pc' = [pc EXCEPT ![j] = "rejected"]
        /\ UNCHANGED <<status, jobError>>
  /\ UNCHANGED <<variant, flaky, now, docs, job, image, localFile, convertedFile,
                 processedFile, sharpResult, img, tmp, storage, printed,
                 created, unlinked, pendingUnlink, fault, thrown, stack, served,
                 elapsed, view>>

\* the clock advances
Tick ==
  /\ now < MaxClock
  /\ now' = now + 1
  /\ UNCHANGED <<variant, flaky, docs, job, image, status, pc, localFile,
                 convertedFile, processedFile, sharpResult, img, tmp, storage,
                 printed, created, unlinked, pendingUnlink, fault, thrown,
                 jobError, stack, served, elapsed, view>>

Next ==
  \/ \E j \in Jobs : JobAdded(j)
  \/ \E j \in Jobs : Download(j)
  \/ \E j \in Jobs : Sharp(j)
  \/ \E j \in Jobs : ExecLp(j)
  \/ \E j \in Jobs : UpdateCompleted(j)
  \/ \E p \in pendingUnlink : UnlinkDone(p)
  \/ \E j \in Jobs : DeleteRemote(j)
  \/ \E j \in Jobs : CatchFailed(j)
  \/ Tick

Spec == Init /\ [][Next]_vars

SpecConcurrent == InitConcurrent /\ [][Next]_vars

(***************************************************************************)
(* The snapshot listener on printJobs where status == "pending".           *)
(***************************************************************************)
\* .where("status", "==", "pending")
Matches(st) == st = "pending"

\* the docChanges() entry of document j in the next snapshot
ChangeType(j) ==
  IF j \notin view /\ Matches(status[j]) THEN "added"
  ELSE IF j \in view /\ ~Matches(status[j]) THEN "removed"
  ELSE "none"

\* mutant: the callback calls processJob for every change
TriggersAny(change) == TRUE

\* if (change.type === "added") processJob(change.doc)
Triggers(change) == change = "added"

\* a later snapshot reports a change of document j to the callback
SnapshotChange(j) ==
  /\ pc[j] # "idle"
  /\ ChangeType(j) # "none"
  /\ view' = IF ChangeType(j) = "added" THEN view \cup {j} ELSE view \ {j}
  /\ IF Triggers(ChangeType(j))
       THEN /\ pc[j] \in {"done", "rejected"}
            /\ localFile' = [localFile EXCEPT
                               ![j] = TmpPath("", now, job[j].fileName)]
            /\ pc' = [pc EXCEPT ![j] = "download"]
       ELSE UNCHANGED <<pc, localFile>>
  /\ UNCHANGED <<variant, flaky, now, docs, job, image, status, convertedFile,
                 processedFile, sharpResult, img, tmp, storage, printed,
                 created, unlinked, pendingUnlink, fault, thrown, jobError,
                 stack, served, elapsed>>

\* one job whose external calls may fail, or two jobs in flight together
InitListener ==
  /\ variant \in Variants
  /\ \E fl \in BOOLEAN :
       /\ flaky = fl
       /\ docs = IF fl THEN {1} ELSE Jobs \cap {1, 2}
  /\ image = [f \in FileNames |-> <<3, 2>>]
  /\ \E l \in Layouts, f \in FileNames :
       job = [j \in Jobs |-> PlainJob(IF j = 1 THEN "a.jpg" ELSE f, l)]
  /\ InitJob
  /\ stack = NoStack

NextListener ==
  \/ Next
  \/ \E j \in Jobs : SnapshotChange(j)

SpecListener == InitListener /\ [][NextListener]_vars

\* sizes of the picture both jobs of a pair print
PairDims == {<<3, 2>>, <<2, 3>>}

\* job.layout and job.options.layout of a document
LayoutPairs ==
  {<<l, "none">> : l \in Layouts} \cup {<<"none", l>> : l \in Layouts}
    \cup {<<"a5", "two4x6">>, <<"two4x6", "a5">>}

\* job.options.fitToPage and job.options.copies of the second job
PairOptions == {<<FALSE, 0>>, <<TRUE, 2>>}

\* two jobs with the same picture and the same layout fields, under different
\* file names, options and clock values
InitPair ==
  /\ variant \in LayoutVariants
  /\ flaky = FALSE
  /\ docs = Jobs \cap {1, 2}
  /\ \E d \in PairDims : image = [f \in FileNames |-> d]
  /\ \E lp \in LayoutPairs, f \in FileNames, o \in PairOptions :
       job = [j \in Jobs |->
                IF j = 1
                  THEN [PlainJob("a.jpg", lp[1]) EXCEPT !.optLayout = lp[2]]
                  ELSE [fileName |-> f, layout |-> lp[1], optLayout |-> lp[2],
                        fitToPage |-> o[1], copies |-> o[2]]]
  /\ InitJob
  /\ stack = NoStack

SpecPair == InitPair /\ [][Next]_vars

(***************************************************************************)
(* The stack-gap computation of server_v3 on arbitrary heights.            *)
(***************************************************************************)
InitStack ==
  /\ variant = "server_v3"
  /\ flaky = FALSE
  /\ docs = {}
  /\ image = [f \in FileNames |-> <<1, 1>>]
  /\ job = [j \in Jobs |-> PlainJob("a.jpg", "two4x6")]
  /\ InitJob
  /\ \E cH \in (1..MaxStack) \cup {canvasHeight},
        sH \in (1..MaxStack) \cup {photoHeight4x6} :
       stack = [NoStack EXCEPT !.canvasHeight = cH, !.slotHeight = sH]

\* lines 400-411 of the third variant, on the heights held in stack
PlanStack ==
  /\ ~stack.planned
  /\ LET plan == StackPlan(stack.canvasHeight, stack.slotHeight)
     IN  stack' = [stack EXCEPT !.planned = TRUE, !.gap = plan.gap,
                     !.first = plan.first, !.second = plan.second,
                     !.overflow = plan.overflow]
  /\ UNCHANGED <<jobVars, httpVars>>

NextStack == PlanStack

SpecStack == InitStack /\ [][NextStack]_vars

(***************************************************************************)
(* The express server: app.use(cors()), app.use(express.json()), routes.   *)
(***************************************************************************)
\* requests counted per client before the count is capped
MaxRequests == 101

\* "100 requests per 15 minutes per IP"
rateLimitMax == 100

rateLimitWindow == 15

\* the routes registered with app.get
Routes ==
  IF variant = "part_000" THEN {"/status", "/rtdb-status", "/printer/qr/view"}
  ELSE {"/status", "/rtdb-status"}

InitHttp ==
  /\ variant \in Variants
  /\ flaky = FALSE
  /\ docs = {}
  /\ image = [f \in FileNames |-> <<1, 1>>]
  /\ job = [j \in Jobs |-> PlainJob("a.jpg", "none")]
  /\ InitJob
  /\ stack = NoStack

\* a GET from client c: cors() and express.json() call next(), the route
\* handler sends its response; no middleware counts or refuses requests
HttpRequest(c, route) ==
  /\ route \in Routes
  /\ served[c] < MaxRequests
  /\ served' = [served EXCEPT ![c] = @ + 1]
  /\ UNCHANGED <<jobVars, stack, elapsed>>

\* a minute passes; after rateLimitWindow minutes a new window begins
HttpMinute ==
  /\ IF elapsed + 1 < rateLimitWindow
       THEN /\ elapsed' = elapsed + 1
            /\ UNCHANGED served
       ELSE /\ elapsed' = 0
            /\ served' = [c \in Clients |-> 0]
  /\ UNCHANGED <<jobVars, stack>>

NextHttp ==
  \/ \E c \in Clients, route \in Routes : HttpRequest(c, route)
  \/ HttpMinute

SpecHttp == InitHttp /\ [][NextHttp]_vars

(***************************************************************************)
(* Properties.                                                             *)
(***************************************************************************)
SharpThrew(j) == sharpResult[j] \notin {"none", "ok"}

Dispatched(j) == printed[j].file # EmptyPath

Finished(j) == pc[j] \in {"done", "rejected"}

InFlight(j) == pc[j] \notin {"idle", "done", "rejected"}

Computed(j) == img[j].err # "unset"

Composited(j) == img[j].err = "none" /\ img[j].branch = "two"

\* |w/h - num/den| <= 0.01
RatioWithin(d, t) == 100 * Abs(d[1] * t[2] - d[2] * t[1]) <= d[2] * t[2]

\* C1: in every variant with layout logic, when an image-processing step
\* threw, the lp command dispatched afterwards names localFile, the
\* downloaded original, not processedFile.
C1_FallbackPrintsOriginal ==
  \A j \in Jobs :
    (variant \in LayoutVariants /\ SharpThrew(j) /\ Dispatched(j))
      => printed[j].file = localFile[j]

\* C2: in part_000, for every layout and every source size, when image
\* processing finished without error the encoded output is exactly
\* 1748 px wide and 2480 px high.
C2_OutputCanvasSize ==
  \A j \in Jobs :
    (variant = "part_000" /\ sharpResult[j] = "ok")
      => /\ img[j].out = <<1748, 2480>>
         /\ processedFile[j] \in DOMAIN tmp
              => tmp[processedFile[j]].dims = <<1748, 2480>>

C2_Witness ==
  \E j \in Jobs :
    /\ variant = "part_000"
    /\ sharpResult[j] = "ok"
    /\ img[j].branch = "single"
    /\ img[j].needsPad
    /\ processedFile[j] \in DOMAIN tmp

\* C3: in the two-slot layout of part_000 and of the third variant of
\* server.js, when the composite step is reached both slot rectangles lie
\* inside the 1748 x 2480 canvas and the first ends where or before the
\* second begins.
C3_SlotsInBoundsDisjoint ==
  \A j \in Jobs :
    (variant \in {"part_000", "server_v3"} /\ Composited(j))
      => LET s == img[j].slots
         IN  /\ Len(s) = 2
             /\ \A i \in 1..2 :
                  /\ 0 <= s[i].left
                  /\ 0 <= s[i].top
                  /\ s[i].left + s[i].width <= 1748
                  /\ s[i].top + s[i].height <= 2480
             /\ s[1].top + s[1].height <= s[2].top

C3_Witness ==
  \E j \in Jobs :
    /\ variant = "server_v3"
    /\ Composited(j)
    /\ img[j].slots[1].top = 50
    /\ img[j].slots[2].top = 1265
    /\ img[j].slots[2].height = 1165

\* C4 as stated: for all positive heights with 2 * slotHeight <= canvasHeight
\* the gap satisfies gap * 3 + slotHeight * 2 <= canvasHeight.
C4_GapFitsAlways ==
  (stack.planned /\ 2 * stack.slotHeight <= stack.canvasHeight)
    => stack.gap * 3 + stack.slotHeight * 2 <= stack.canvasHeight

\* C4 amended: gap * 3 + slotHeight * 2 <= canvasHeight holds when the free
\* height canvasHeight - 2 * slotHeight is at least 3 and is not 2 modulo 3
\* (2480 and 1165 leave 150); for the other free heights the sum exceeds
\* canvasHeight, by at most 3.
C4_GapFitsAmended ==
  LET free == stack.canvasHeight - 2 * stack.slotHeight
      used == stack.gap * 3 + stack.slotHeight * 2
  IN  (stack.planned /\ free >= 0)
        => /\ (free >= 3 /\ free % 3 # 2) => used <= stack.canvasHeight
           /\ (free < 3 \/ free % 3 = 2) => used > stack.canvasHeight
           /\ used <= stack.canvasHeight + 3

C4_Witness ==
  /\ stack.planned
  /\ stack.canvasHeight = 2480
  /\ stack.slotHeight = 1165
  /\ stack.gap = 50
  /\ stack.gap * 3 + stack.slotHeight * 2 = 2480

\* C5 as stated: in part_000, for every post-rotation size that needs
\* padding, the extended image has a ratio within 0.01 of the target and
\* opposite pads differ by at most 1 px.
C5_PadRatioWithinTolerance ==
  \A j \in Jobs :
    (variant = "part_000" /\ Computed(j) /\ img[j].needsPad)
      => /\ RatioWithin(img[j].padded, img[j].target)
         /\ Abs(img[j].sides.left - img[j].sides.right) <= 1
         /\ Abs(img[j].sides.top - img[j].sides.bottom) <= 1

\* C5 amended: the extended image has a ratio within 0.01 of the target when
\* the post-rotation width and height are both at least 340 px; for every
\* size the padded side is between 0.5 px below and 1.5 px above the exact
\* target-ratio size, and opposite pads are equal.
C5_PadResultAmended ==
  \A j \in Jobs :
    (variant = "part_000" /\ Computed(j) /\ img[j].needsPad)
      => LET m == img[j].meta
             d == img[j].padded
             t == img[j].target
             sd == img[j].sides
             growHeight == m[1] * t[2] > m[2] * t[1]
         IN  /\ (m[1] >= 340 /\ m[2] >= 340) => RatioWithin(d, t)
             /\ d = <<m[1] + sd.left + sd.right, m[2] + sd.top + sd.bottom>>
             /\ IF growHeight
                  THEN /\ d[1] = m[1]
                       /\ -t[1] <= 2 * (t[1] * d[2] - t[2] * m[1])
                       /\ 2 * (t[1] * d[2] - t[2] * m[1]) <= 3 * t[1]
                  ELSE /\ d[2] = m[2]
                       /\ -t[2] <= 2 * (t[2] * d[1] - t[1] * m[2])
                       /\ 2 * (t[2] * d[1] - t[1] * m[2]) <= 3 * t[2]
             /\ sd.left = sd.right
             /\ sd.top = sd.bottom

C5_Witness ==
  \E j \in Jobs :
    /\ variant = "part_000"
    /\ Computed(j)
    /\ img[j].needsPad
    /\ img[j].meta[1] >= 340
    /\ img[j].meta[2] >= 340
    /\ img[j].sides.top > 0
    /\ img[j].padded[2] # img[j].newDims[2]

\* C6: in part_000 the source is rotated by 90 degrees exactly when the
\* layout is a5/fullA5 and width > height, or two4x6/twoA6 and
\* width < height; a square is never rotated; afterwards width <= height
\* for a5/fullA5 and width >= height for two4x6/twoA6.
C6_OrientationRule ==
  \A j \in Jobs :
    (variant = "part_000" /\ Computed(j))
      => LET src == image[job[j].fileName]
             l == JobLayout(j)
             single == l \in {"a5", "fullA5"}
             two == l \in {"two4x6", "twoA6"}
         IN  /\ img[j].rotated <=> \/ single /\ src[1] > src[2]
                                   \/ two /\ src[1] < src[2]
             /\ src[1] = src[2] => ~img[j].rotated
             /\ img[j].meta = IF img[j].rotated THEN <<src[2], src[1]>> ELSE src
             /\ single => img[j].meta[1] <= img[j].meta[2]
             /\ two => img[j].meta[1] >= img[j].meta[2]

C6_Witness ==
  \E j \in Jobs :
    /\ variant = "part_000"
    /\ Computed(j)
    /\ img[j].branch = "two"
    /\ img[j].rotated
    /\ img[j].meta[1] > img[j].meta[2]

\* C7: when the final toFile step fails, the failure is not swallowed as a
\* fallback: no lp command is dispatched for the job and the job ends with
\* status "failed".
C7_EncodeFailureIsFatal ==
  \A j \in Jobs :
    sharpResult[j] = "encodeErr"
      => /\ ~Dispatched(j)
         /\ pc[j] = "done" => status[j] = "failed"

\* C8: whichever way processJob finishes, every file it created under /tmp
\* has been deleted or handed to fs.unlink by then.
C8_TempFilesReleased ==
  \A j \in Jobs :
    Finished(j)
      => \A p \in created[j] : p \notin DOMAIN tmp \/ p \in unlinked[j]

\* the temp paths an invocation has computed so far
TempPaths(j) ==
  ({localFile[j], convertedFile[j], processedFile[j]} \ {EmptyPath})
    \cup IF /\ variant = "part_000"
            /\ pc[j] \in {"sharp", "print", "update", "delete", "catch"}
            /\ processedFile[j] # EmptyPath
            /\ JobLayout(j) \in {"two4x6", "twoA6"}
           THEN {tempFile}
           ELSE {}

\* C9: in part_000, two distinct jobs in flight at the same time never
\* share a temp path (localFile, convertedFile, processedFile, tempFile).
C9_TempNamesUnique ==
  \A j \in Jobs : \A k \in Jobs \ {j} :
    (variant = "part_000" /\ InFlight(j) /\ InFlight(k))
      => TempPaths(j) \cap TempPaths(k) = {}

\* what a job prints when it runs alone and no external call fails
AloneContent(j) ==
  IF variant = "server_v1" THEN RawContent(job[j].fileName)
  ELSE LET l == JobLayout(j)
       IN  [src |-> job[j].fileName, kind |-> "processed", layout |-> l,
            dims |-> Layout(variant, l, image[job[j].fileName]).out]

\* C10: in part_000, with two jobs interleaved, a job whose own external
\* calls all succeeded ends as if it had run alone: status "completed",
\* having printed its own picture in its own layout.
C10_NoInterference ==
  \A j \in Jobs :
    (variant = "part_000" /\ Finished(j) /\ ~fault[j])
      => /\ pc[j] = "done"
         /\ status[j] = "completed"
         /\ printed[j].ok
         /\ printed[j].content = AloneContent(j)

\* C11: whatever step fails, the promise returned by processJob resolves;
\* it never rejects.
C11_NeverRejects ==
  \A j \in Jobs : pc[j] # "rejected"

\* the job runs the two4x6 layout on a 3600 x 2400 picture
Scenario3600x2400(j) ==
  /\ variant \in LayoutVariants
  /\ Computed(j)
  /\ job[j].layout = "two4x6"
  /\ image[job[j].fileName] = <<3600, 2400>>

\* C13: for a 3600 x 2400 source with layout two4x6, in every variant with
\* that layout, the image is not rotated, the same image is placed in both
\* slots, the gap is greater than 0 and the two slot heights plus the three
\* gaps sum to exactly 2480.
C13_TwoSlotScenario ==
  \A j \in Jobs :
    Scenario3600x2400(j)
      => /\ img[j].branch = "two"
         /\ ~img[j].rotated
         /\ img[j].slots[1].width = img[j].slots[2].width
         /\ img[j].slots[1].height = img[j].slots[2].height
         /\ img[j].gap > 0
         /\ img[j].gap * 3 + img[j].slots[1].height + img[j].slots[2].height = 2480

\* the job runs the a5 layout of part_000 on a 4000 x 3000 picture
Scenario4000x3000(j) ==
  /\ variant = "part_000"
  /\ Computed(j)
  /\ job[j].layout = "a5"
  /\ image[job[j].fileName] = <<4000, 3000>>

\* C14 as stated: the 4000 x 3000 source is rotated to 3000 x 4000, padded,
\* encoded at exactly 1748 x 2480, and the ratio of that output is within
\* 0.01 of 2/3.
C14_SinglePhotoScenario ==
  \A j \in Jobs :
    Scenario4000x3000(j)
      => /\ img[j].rotated
         /\ img[j].meta = <<3000, 4000>>
         /\ img[j].needsPad
         /\ img[j].out = <<1748, 2480>>
         /\ RatioWithin(img[j].out, <<2, 3>>)

\* C14 amended: the source is rotated to 3000 x 4000, padded to 3000 x 4500,
\* whose ratio is within 0.01 of 2/3, and encoded at exactly 1748 x 2480;
\* the ratio of the 1748 x 2480 output (0.705) is not within 0.01 of 2/3.
C14_SinglePhotoAmended ==
  \A j \in Jobs :
    Scenario4000x3000(j)
      => /\ img[j].rotated
         /\ img[j].meta = <<3000, 4000>>
         /\ img[j].needsPad
         /\ img[j].sides = [top |-> 250, bottom |-> 250, left |-> 0, right |-> 0]
         /\ img[j].padded = <<3000, 4500>>
         /\ RatioWithin(img[j].padded, <<2, 3>>)
         /\ img[j].out = <<1748, 2480>>
         /\ ~RatioWithin(img[j].out, <<2, 3>>)
         /\ sharpResult[j] = "ok" => tmp[processedFile[j]].dims = <<1748, 2480>>

C14_Witness ==
  \E j \in Jobs :
    /\ Scenario4000x3000(j)
    /\ sharpResult[j] = "ok"
    /\ processedFile[j] \in DOMAIN tmp

\* C18: in the two4x6 layout of part_001, for every source size, both placed
\* photos lie inside the 1748 x 2480 canvas.
C18_CenteredPlacementInBounds ==
  \A j \in Jobs :
    (variant = "part_001" /\ Composited(j))
      => LET s == img[j].slots
         IN  /\ s[1].left >= 0
             /\ s[1].left + s[1].width <= 1748
             /\ s[1].top >= 0
             /\ s[2].top + s[2].height <= 2480

\* C19: once status "completed" has been written for a job, status "failed"
\* is never written for it afterwards.
C19_CompletedIsFinal ==
  [][\A j \in Jobs : status[j] = "completed" => status'[j] # "failed"]_vars

\* C17: the server answers at most 100 requests of one client IP within a
\* 15-minute window; further requests of that IP in the window are refused.
C17_RateLimited ==
  \A c \in Clients : served[c] <= rateLimitMax

\* the layout-relevant part of a file the layout logic wrote
Encoded(c) == [kind |-> c.kind, layout |-> c.layout, dims |-> c.dims]

\* both jobs hold the same picture and the same layout fields
SameInput(j, k) ==
  /\ image[job[j].fileName] = image[job[k].fileName]
  /\ job[j].layout = job[k].layout
  /\ job[j].optLayout = job[k].optLayout

\* C12: two runs of the layout logic on the same picture and the same layout
\* identifier compute the same rotation, pads, slots and canvas and write the
\* same output, whatever the job id, file name, clock value, fitToPage and
\* copies options, and whatever the other job does meanwhile.
C12_Deterministic ==
  \A j \in Jobs : \A k \in Jobs :
    (Computed(j) /\ Computed(k) /\ SameInput(j, k))
      => /\ img[j] = img[k]
         /\ img[j] = Layout(variant, LayoutOf(variant, OrLayout(job[j].layout,
                                                               job[j].optLayout)),
                            image[job[j].fileName])
         /\ (/\ sharpResult[j] = "ok" /\ sharpResult[k] = "ok"
             /\ processedFile[j] \in DOMAIN tmp
             /\ processedFile[k] \in DOMAIN tmp)
              => Encoded(tmp[processedFile[j]]) = Encoded(tmp[processedFile[k]])

C12_Witness ==
  \E j \in Jobs : \E k \in Jobs :
    /\ j # k
    /\ Computed(j) /\ Computed(k) /\ SameInput(j, k)
    /\ sharpResult[j] = "ok" /\ sharpResult[k] = "ok"
    /\ processedFile[j] \in DOMAIN tmp
    /\ processedFile[k] \in DOMAIN tmp
    /\ processedFile[j] # processedFile[k]
    /\ job[j].fileName # job[k].fileName
    /\ localFile[j][2] # localFile[k][2]
    /\ job[j].fitToPage # job[k].fitToPage
    /\ job[j].copies # job[k].copies
    /\ img[j].branch = "two"

\* job.layout || job.options?.layout, "none" when both are absent
RawLayout(j) == OrLayout(job[j].layout, job[j].optLayout)

\* C15: in every variant with layout logic the layout is job.layout, else
\* job.options.layout, else the default; no layout, a5 and fullA5 select the
\* same single-photo processing, and twoA6 selects the same two-slot
\* processing as two4x6.
C15_LayoutIdentifiers ==
  \A j \in Jobs :
    (variant \in LayoutVariants /\ Computed(j))
      => LET src == image[job[j].fileName]
         IN  /\ RawLayout(j) \in {"none", "a5", "fullA5"}
                  => /\ img[j] = Layout(variant, "fullA5", src)
                     /\ img[j].branch \in {"single", "full"}
             /\ RawLayout(j) \in {"two4x6", "twoA6"}
                  => /\ img[j] = Layout(variant, "two4x6", src)
                     /\ img[j].branch = "two"

\* C20: status "completed" is written only after the download succeeded and
\* lp exited without error; when the download or lp fails, "completed" is
\* never written and status "failed" is written with a non-empty error.
C20_CompletedImpliesPrinted ==
  \A j \in Jobs :
    /\ status[j] = "completed"
         => /\ localFile[j] \in created[j]
            /\ Dispatched(j)
            /\ printed[j].ok
    /\ (Finished(j) /\ ~printed[j].ok)
         => /\ status[j] = "failed"
            /\ jobError[j] # ""

\* C22: every job for which processJob ran has left "pending" once the
\* invocation has ended: its status is "completed" or "failed".
C22_LeavesPending ==
  \A j \in Jobs : Finished(j) => status[j] \in {"completed", "failed"}

\* the padding step of part_000 ran and padded
Padded(j) ==
  /\ variant = "part_000"
  /\ Computed(j)
  /\ img[j].branch \in {"single", "two"}
  /\ img[j].needsPad

\* C25: in the padding step of part_000 the padding is on one axis only
\* (height when ratio > target, width otherwise), is never negative, adds
\* exactly newHeight - height (or newWidth - width) with an odd difference
\* going to the trailing side, so the padded image is newWidth x newHeight.
C25_PaddedEqualsTarget ==
  \A j \in Jobs :
    Padded(j)
      => LET m == img[j].meta
             t == img[j].target
             n == img[j].newDims
             sd == img[j].sides
         IN  /\ IF m[1] * t[2] > m[2] * t[1]
                  THEN n[1] = m[1] /\ sd.left = 0 /\ sd.right = 0
                  ELSE n[2] = m[2] /\ sd.top = 0 /\ sd.bottom = 0
             /\ sd.top >= 0 /\ sd.bottom >= 0 /\ sd.left >= 0 /\ sd.right >= 0
             /\ sd.top + sd.bottom = n[2] - m[2]
             /\ sd.left + sd.right = n[1] - m[1]
             /\ sd.bottom = sd.top + ((n[2] - m[2]) % 2)
             /\ sd.right = sd.left + ((n[1] - m[1]) % 2)
             /\ img[j].padded = n

\* C23: the remote object printJobs/<fileName> is deleted only by the delete
\* step of a job of that file name whose lp command succeeded and whose
\* status "completed" was written; a step that fails (the job goes to the
\* catch block, rejects or is marked "failed") leaves the storage as it was.
C23_DeletedOnlyAfterSuccess ==
  [][/\ \A f \in FileNames :
          (f \in storage /\ f \notin storage')
            => \E j \in Jobs :
                 /\ job[j].fileName = f
                 /\ pc[j] = "delete" /\ pc'[j] = "done"
                 /\ status[j] = "completed"
                 /\ printed[j].ok
                 /\ localFile[j] \in created[j]
     /\ \A j \in Jobs :
          (pc'[j] # pc[j] /\ pc'[j] \in {"catch", "rejected"})
            => storage' = storage
     /\ \A j \in Jobs :
          (status'[j] # status[j] /\ status'[j] = "failed")
            => storage' = storage]_vars

C23_Witness ==
  \E j \in Jobs :
    /\ pc[j] = "done"
    /\ status[j] = "completed"
    /\ printed[j].ok
    /\ job[j].fileName \notin storage

\* the declared slot size of the two-slot layout of the running variant
SlotSize ==
  IF variant = "part_000" THEN <<photoWidth, photoHeightA6>>
  ELSE <<photoWidth, photoHeight4x6>>

\* sizes the cover resize would hand to the clamp if it were off by a few pixels
DriftedSizes ==
  {<<photoWidth + dx, photoHeight4x6 + dy>> : dx \in -MaxDrift..MaxDrift,
                                             dy \in -MaxDrift..MaxDrift}

\* C24: in the two-slot layout of part_000 and of the third variant of
\* server.js, whenever the composite step is reached the photo placed in each
\* slot has exactly the declared slot size (1748 x 1240, respectively
\* 1748 x 1165); in server.js the clamp brings any size the cover resize
\* returns to exactly the slot size.
C24_ExactFit ==
  \A j \in Jobs :
    (variant \in {"part_000", "server_v3"} /\ Composited(j))
      => /\ SlotSize = IF variant = "part_000" THEN <<1748, 1240>> ELSE <<1748, 1165>>
         /\ img[j].photo = SlotSize
         /\ \A i \in 1..2 :
              <<img[j].slots[i].width, img[j].slots[i].height>> = SlotSize
         /\ variant = "server_v3"
              => \A d \in DriftedSizes :
                   SafetyClamp(d, photoWidth, photoHeight4x6) = SlotSize

C24_Witness ==
  \E j \in Jobs :
    /\ variant = "server_v3"
    /\ Composited(j)
    /\ sharpResult[j] = "ok"
    /\ img[j].photo = <<1748, 1165>>

\* C21: for every job id at most one lp command is ever dispatched.
C21_AtMostOnePrint ==
  \A j \in Jobs : printed[j].count <= 1

C21_Witness ==
  \E j \in Jobs :
    /\ pc[j] = "done"
    /\ printed[j].count = 1
    /\ status[j] \in {"completed", "failed"}
    /\ j \notin view

=============================================================================
